---------------------------- MODULE Spec2Model ----------------------------
(***************************************************************************)
(* Theme-discovery and incremental-assignment pipeline of the Copilot      *)
(* Studio Reddit monitor: run coordination (routers/clustering.py,         *)
(* services/scheduler.py) and the clustering worker                        *)
(* (services/clustering_service.py).                                       *)
(*                                                                         *)
(* Python values are encoded as follows.  A JSON value the LLM returns is  *)
(* a record [t |-> "int", n |-> 3], [t |-> "bool", b |-> TRUE],            *)
(* [t |-> "str", s |-> <<"P","o","s","t"," ","3">>] or [t |-> "other"]     *)
(* (null, float, list, object).  A Python str is a sequence of             *)
(* one-character strings.  Python None, where an int is expected, is None. *)
(***************************************************************************)
EXTENDS Integers, Sequences, FiniteSets, TLC

VARIABLES
    posts,      \* Post table: sequence of post ids, created_utc descending
    analyses,   \* Analysis table: sequence of rows, row id = position
    runs,       \* ClusteringRun table: run id -> row
    themes,     \* PainTheme table: sequence of rows, row id = position
    mappings,   \* PostThemeMapping table: sequence of rows
    workers,    \* run id -> local state of its run_clustering invocation
    requests,   \* caller -> position inside trigger_clustering_run
    call,       \* the last direct call of a service function and its result
    llm         \* the LLM behind the gateway: "adversarial" answers with
                \* anything, "terse" with few of the shapes

vars == <<posts, analyses, runs, themes, mappings, workers, requests, call, llm>>

None == 0 - 1

RECURSIVE SeqsUpTo(_, _)
SeqsUpTo(S, n) ==
    IF n = 0 THEN {<<>>}
    ELSE LET shorter == SeqsUpTo(S, n - 1) IN
         shorter \cup { Append(q, x) : q \in { y \in shorter : Len(y) = n - 1 },
                                       x \in S }

Range(q) == { q[i] : i \in 1..Len(q) }

\* dict.get(key, default)
Get(d, key, default) == IF key \in DOMAIN d THEN d[key] ELSE default

-----------------------------------------------------------------------------
(* Python str primitives used by the service.                              *)

IntVal(k) == [t |-> "int", n |-> k]
StrVal(s) == [t |-> "str", s |-> s]

PostPrefix == <<"P", "o", "s", "t", " ">>
ThemePrefix == <<"T", "h", "e", "m", "e", " ">>

Digits == <<"0", "1", "2", "3", "4", "5", "6", "7", "8", "9">>

IsDigitCh(c) == \E d \in 1..10 : Digits[d] = c

DigitVal(c) == (CHOOSE d \in 1..10 : Digits[d] = c) - 1

UpperCh == <<"A", "B", "P", "T", "X">>
LowerCh == <<"a", "b", "p", "t", "x">>

\* str.lower() on one character
LowerOfCh(c) ==
    IF \E i \in 1..Len(UpperCh) : UpperCh[i] = c
    THEN LowerCh[CHOOSE i \in 1..Len(UpperCh) : UpperCh[i] = c]
    ELSE c

\* \w of the re module: letters, digits, underscore
IsWordCh(c) ==
    \/ IsDigitCh(c)
    \/ \E i \in 1..Len(UpperCh) : c = UpperCh[i] \/ c = LowerCh[i]
    \/ c \in {"o", "s", "e", "m", "h", "y", "z", "_"}

IsSpaceCh(c) == c = " "

RECURSIVE LStrip(_)
LStrip(s) ==
    IF s # <<>> /\ IsSpaceCh(Head(s)) THEN LStrip(Tail(s)) ELSE s

RECURSIVE RStrip(_)
RStrip(s) ==
    IF s # <<>> /\ IsSpaceCh(s[Len(s)])
    THEN RStrip(SubSeq(s, 1, Len(s) - 1))
    ELSE s

\* str.strip()
Strip(s) == RStrip(LStrip(s))

\* str.isdigit(): non-empty and every character a digit
IsDigit(s) == s # <<>> /\ \A i \in 1..Len(s) : IsDigitCh(s[i])

\* int(s) for a digit string
RECURSIVE IntOf(_)
IntOf(s) ==
    IF s = <<>> THEN 0
    ELSE 10 * IntOf(SubSeq(s, 1, Len(s) - 1)) + DigitVal(s[Len(s)])

\* str(k) for k >= 0
RECURSIVE StrOf(_)
StrOf(k) ==
    IF k < 10 THEN <<Digits[k + 1]>>
    ELSE StrOf(k \div 10) \o <<Digits[(k % 10) + 1]>>

\* str.lower()
Lower(s) == [i \in 1..Len(s) |-> LowerOfCh(s[i])]

\* re.search(r'\b(\d+)\b', s): the leftmost run of digits with a word
\* boundary on both sides, as int(match.group(1)); None without a match.
WordBoundaryRuns(s) ==
    { <<i, j>> \in (1..Len(s)) \X (1..Len(s)) :
        /\ i <= j
        /\ \A k \in i..j : IsDigitCh(s[k])
        /\ (i = 1 \/ ~IsWordCh(s[i - 1]))
        /\ (j = Len(s) \/ ~IsWordCh(s[j + 1])) }

SearchNumber(s) ==
    LET ms == WordBoundaryRuns(s) IN
    IF ms = {} THEN None
    ELSE LET m == CHOOSE m \in ms : \A o \in ms : m[1] <= o[1]
         IN  IntOf(SubSeq(s, m[1], m[2]))

-----------------------------------------------------------------------------
(* Index Reference Resolver                                                *)

\* index_to_post_id = {i: post.id for i, post in enumerate(posts)}
IndexToPostId(batch) == [i \in 0..(Len(batch) - 1) |-> batch[i + 1]]

\* post_id_to_index = {post.id: i for i, post in enumerate(posts)}
PostIdToIndex(batch) ==
    [p \in {batch[i] : i \in 1..Len(batch)} |->
        CHOOSE i \in 0..(Len(batch) - 1) :
            /\ batch[i + 1] = p
            /\ \A j \in 0..(Len(batch) - 1) : batch[j + 1] = p => j <= i]

\* the trailing loop: first key, in insertion order, whose lower() matches
LowerLookup(v, post_id_to_index) ==
    LET hits == { p \in DOMAIN post_id_to_index : Lower(p) = Lower(v) } IN
    IF hits = {} THEN None
    ELSE post_id_to_index[CHOOSE p \in hits :
            \A q \in hits : post_id_to_index[p] <= post_id_to_index[q]]

\* the resolver with the range test of the pattern branch left out
ParseStringReferenceUnchecked(raw, index_to_post_id, post_id_to_index) ==
    LET v == Strip(raw)
        n == SearchNumber(v)
    IN  IF IsDigit(v)
        THEN (IF IntOf(v) \in DOMAIN index_to_post_id THEN IntOf(v) ELSE None)
        ELSE IF n # None THEN n
        ELSE IF v \in DOMAIN post_id_to_index THEN post_id_to_index[v]
        ELSE LowerLookup(v, post_id_to_index)

ParseStringReference(raw, index_to_post_id, post_id_to_index) ==
    LET v == Strip(raw)
        n == SearchNumber(v)
    IN  IF IsDigit(v)
        THEN (IF IntOf(v) \in DOMAIN index_to_post_id THEN IntOf(v) ELSE None)
        ELSE IF n # None /\ n \in DOMAIN index_to_post_id THEN n
        ELSE IF v \in DOMAIN post_id_to_index THEN post_id_to_index[v]
        ELSE LowerLookup(v, post_id_to_index)

\* isinstance(value, int) holds for bool too: True == 1, False == 0
ParsePostReference(value, index_to_post_id, post_id_to_index) ==
    IF value.t = "int"
    THEN (IF value.n \in DOMAIN index_to_post_id THEN value.n ELSE None)
    ELSE IF value.t = "bool"
    THEN (IF (IF value.b THEN 1 ELSE 0) \in DOMAIN index_to_post_id
          THEN (IF value.b THEN 1 ELSE 0) ELSE None)
    ELSE IF value.t = "str"
    THEN ParseStringReference(value.s, index_to_post_id, post_id_to_index)
    ELSE None

-----------------------------------------------------------------------------
(* Severity Calculator                                                     *)

\* direct calls of the calculator in a row
MaxCalls == 2

NewTheme(name, product_area_id, run_id) ==
    [name |-> name, product_area_id |-> product_area_id, severity |-> 3,
     is_active |-> TRUE, clustering_run_id |-> run_id]

NewMapping(post_id, theme_id, confidence) ==
    [post_id |-> post_id, theme_id |-> theme_id, confidence |-> confidence]

Sentiments == {"positive", "neutral", "negative"}

\* post_ids of the PostThemeMapping rows of the theme
ThemePostIds(theme_id) ==
    { mappings[i].post_id :
        i \in { j \in 1..Len(mappings) : mappings[j].theme_id = theme_id } }

\* SELECT max(id) FROM analyses WHERE post_id IN post_ids GROUP BY post_id
LatestAnalysisIds(post_ids) ==
    { i \in 1..Len(analyses) :
        /\ analyses[i].post_id \in post_ids
        /\ \A j \in 1..Len(analyses) :
              analyses[j].post_id = analyses[i].post_id => j <= i }

\* the weights with the sign of the two sentiments exchanged
SentimentWeightSwapped(sentiment) ==
    IF sentiment = "negative" THEN 0 - 1
    ELSE IF sentiment = "positive" THEN 1
    ELSE 0

\* negative adds 1, positive subtracts 1, neutral adds 0
SentimentWeight(sentiment) ==
    IF sentiment = "negative" THEN 1
    ELSE IF sentiment = "positive" THEN 0 - 1
    ELSE 0

RECURSIVE SumWeights(_)
SumWeights(ids) ==
    IF ids = {} THEN 0
    ELSE LET i == CHOOSE x \in ids : TRUE
         IN  SentimentWeight(analyses[i].sentiment) + SumWeights(ids \ {i})

\* weighted_score = score_sum / total against 0.5, 0.25, 0, -0.25; the
\* quotient is compared exactly, total being positive
SeverityOfScore(score_sum, total) ==
    IF 2 * score_sum >= total THEN 5
    ELSE IF 4 * score_sum >= total THEN 4
    ELSE IF score_sum >= 0 THEN 3
    ELSE IF 4 * score_sum >= 0 - total THEN 2
    ELSE 1

CalculateSeverityFromSentiments(theme_id) ==
    LET post_ids == ThemePostIds(theme_id)
        latest == LatestAnalysisIds(post_ids)
    IN  IF post_ids = {} THEN 3
        ELSE IF latest = {} THEN 3
        ELSE SeverityOfScore(SumWeights(latest), Cardinality(latest))

ActiveThemeIds == { t \in 1..Len(themes) : themes[t].is_active }

\* POST /api/clustering/recalculate-severity
RecalculateSeverity ==
    /\ call.op = "input"
    /\ themes' = [t \in 1..Len(themes) |->
                    IF themes[t].is_active
                    THEN [themes[t] EXCEPT
                            !.severity = CalculateSeverityFromSentiments(t)]
                    ELSE themes[t]]
    /\ call' = [op |-> "recalculate_severity",
                updated |-> Cardinality({ t \in ActiveThemeIds :
                    themes[t].severity # CalculateSeverityFromSentiments(t) })]
    /\ UNCHANGED <<posts, analyses, runs, mappings, workers, requests, llm>>

\* a call of _calculate_severity_from_sentiments that also stores its result
\* in the theme row
CalculateSeverityPersisting(theme_id) ==
    /\ call.op \in {"input", "calculate_severity"}
    /\ Get(call, "n", 0) < MaxCalls
    /\ call' = [op |-> "calculate_severity", theme_id |-> theme_id,
                result |-> CalculateSeverityFromSentiments(theme_id),
                before |-> Get(call, "theme_id", None),
                n |-> Get(call, "n", 0) + 1]
    /\ themes' = [themes EXCEPT ![theme_id].severity =
                                   CalculateSeverityFromSentiments(theme_id)]
    /\ UNCHANGED <<posts, analyses, runs, mappings, workers, requests, llm>>

\* a direct call of _calculate_severity_from_sentiments(db, theme_id): it
\* queries and returns, it adds nothing to the session and commits nothing
CalculateSeverity(theme_id) ==
    /\ call.op \in {"input", "calculate_severity"}
    /\ Get(call, "n", 0) < MaxCalls
    /\ call' = [op |-> "calculate_severity", theme_id |-> theme_id,
                result |-> CalculateSeverityFromSentiments(theme_id),
                before |-> Get(call, "theme_id", None),
                n |-> Get(call, "n", 0) + 1]
    /\ UNCHANGED <<posts, analyses, runs, themes, mappings, workers, requests, llm>>

-----------------------------------------------------------------------------
(* Consolidator                                                            *)
(*                                                                         *)
(* A discovered theme is the dict                                          *)
(*   [theme_name, product_area_id, post_ids]   (post_ids a list);          *)
(* its description is carried along unread and is left out.  The result    *)
(* of an LLM call is [t |-> "null"] (transport or parse failure),          *)
(* [t |-> "object", ...keys...] or [t |-> "malformed"] (JSON of another    *)
(* shape than the prompt asks for).                                        *)

\* the i-th post id of the store's id space
PostIdOf(i) == <<"t">> \o StrOf(i)

\* list(a_set): the elements in one fixed order
RECURSIVE ListOfSet(_)
ListOfSet(S) ==
    IF S = {} THEN <<>>
    ELSE LET p == CHOOSE x \in S : \A y \in S : IntOf(Tail(x)) <= IntOf(Tail(y))
         IN  <<p>> \o ListOfSet(S \ {p})

\* sorted(a_set) of integers
RECURSIVE SortedInts(_)
SortedInts(S) ==
    IF S = {} THEN <<>>
    ELSE LET k == CHOOSE x \in S : \A y \in S : x <= y
         IN  <<k>> \o SortedInts(S \ {k})

FALLBACK_KEEP == 15

MergedFromKeys ==
    <<"merged_from", "source_indices", "original_indices", "theme_indices", "indices">>

\* the first of the accepted keys that holds a non-empty list
MergedFrom(consolidated) ==
    LET present == { k \in 1..Len(MergedFromKeys) :
                        Get(consolidated, MergedFromKeys[k], <<>>) # <<>> }
    IN  IF present = {} THEN <<>>
        ELSE consolidated[MergedFromKeys[CHOOSE k \in present :
                                            \A j \in present : k <= j]]

\* the index a merged_from value denotes; None when it denotes none
ThemeIndexOf(val) ==
    IF val.t = "int" THEN val.n
    ELSE IF val.t = "bool" THEN (IF val.b THEN 1 ELSE 0)
    ELSE IF val.t = "str"
    THEN (IF IsDigit(Strip(val.s)) THEN IntOf(Strip(val.s))
          ELSE SearchNumber(Strip(val.s)))
    ELSE None

\* the source theme indices a consolidated theme refers to
SourceIndices(consolidated, theme_count) ==
    LET merged_from == MergedFrom(consolidated) IN
    { idx \in 0..(theme_count - 1) :
        \E k \in 1..Len(merged_from) : ThemeIndexOf(merged_from[k]) = idx }

CombinedPostIds(consolidated, source_themes) ==
    UNION { Range(source_themes[idx + 1].post_ids) :
            idx \in SourceIndices(consolidated, Len(source_themes)) }

IndicesUsed(result_themes, theme_count) ==
    UNION { SourceIndices(result_themes[c], theme_count) :
            c \in 1..Len(result_themes) }

\* final_themes of the success branch
MergeByResponse(source_themes, result_themes) ==
    LET merged == [c \in 1..Len(result_themes) |->
                     [theme_name |-> Get(result_themes[c], "theme_name", ""),
                      product_area_id |-> Get(result_themes[c], "product_area_id", None),
                      post_ids |-> ListOfSet(CombinedPostIds(result_themes[c], source_themes))]]
        missing == SortedInts((0..(Len(source_themes) - 1))
                                 \ IndicesUsed(result_themes, Len(source_themes)))
    IN  merged \o [k \in 1..Len(missing) |-> source_themes[missing[k] + 1]]

\* themes[:15]
FirstThemes(source_themes) ==
    SubSeq(source_themes, 1, IF Len(source_themes) < FALLBACK_KEEP THEN Len(source_themes) ELSE FALLBACK_KEEP)

\* "if result and 'themes' in result"
HasThemes(result) == result.t = "object" /\ "themes" \in DOMAIN result

\* _consolidate_themes for a well-formed or failed LLM result
ConsolidateThemes(source_themes, result) ==
    IF HasThemes(result)
    THEN MergeByResponse(source_themes, result.themes)
    ELSE FirstThemes(source_themes)

AllPostIds(theme_list) ==
    UNION { Range(theme_list[i].post_ids) : i \in 1..Len(theme_list) }

-----------------------------------------------------------------------------
(* Theme Discovery Batcher                                                 *)

BATCH_SIZE == 20
MAX_PER_AREA == 5
MAX_CONSOLIDATION_ROUNDS == 3
NumProductAreas == 12

\* ids of the seeded, active ProductArea rows
ActiveProductAreaIds == 1..NumProductAreas

\* the post ids a list of raw references resolves to, unresolved ones dropped
ResolvePostIds(raw_values, batch) ==
    LET index_to_post_id == IndexToPostId(batch)
        post_id_to_index == PostIdToIndex(batch)
        idxs == [k \in 1..Len(raw_values) |->
                    ParsePostReference(raw_values[k], index_to_post_id, post_id_to_index)]
        resolved == SelectSeq(idxs, LAMBDA idx : idx # None)
    IN  [k \in 1..Len(resolved) |-> index_to_post_id[resolved[k]]]

\* theme.get("post_indices", []), else theme.get("post_ids", [])
RawPostValues(theme) ==
    IF Get(theme, "post_indices", <<>>) # <<>>
    THEN theme.post_indices
    ELSE Get(theme, "post_ids", <<>>)

\* _discover_themes_in_batch on the LLM result; the None it returns for a
\* result without themes is the empty list to its caller
DiscoverThemesInBatch(batch, result) ==
    IF HasThemes(result)
    THEN [k \in 1..Len(result.themes) |->
            [theme_name |-> Get(result.themes[k], "theme_name", ""),
             product_area_id |-> Get(result.themes[k], "product_area_id", None),
             post_ids |-> ResolvePostIds(RawPostValues(result.themes[k]), batch)]]
    ELSE <<>>

\* posts[i:i + BATCH_SIZE], i counted from 0
Batch(post_list, i) ==
    SubSeq(post_list, i + 1,
           IF i + BATCH_SIZE < Len(post_list) THEN i + BATCH_SIZE ELSE Len(post_list))

\* min(i + BATCH_SIZE, len(posts))
ProcessedAfter(post_list, i) ==
    IF i + BATCH_SIZE < Len(post_list) THEN i + BATCH_SIZE ELSE Len(post_list)

(* The LLM as discovery oracle: the results it may give for a batch.       *)

\* "theme_name": null in the JSON: Python None, which is no str
NullName == "None"

AllIndices(n) == [k \in 1..n |-> IntVal(k - 1)]

\* "[Post 0]", "[Post 1]", ... as the prompt prints them
PrintedIndices(n) ==
    [k \in 1..n |-> StrVal(<<"[">> \o PostPrefix \o StrOf(k - 1) \o <<"]">>)]

DiscoveredTheme(name, pa, raw) ==
    [theme_name |-> name, product_area_id |-> pa, post_indices |-> raw]

\* count themes of product area 1; theme k lists index k - 1 when the batch
\* has it, and the last theme lists every index no earlier theme lists
ManyThemes(count, n) ==
    [k \in 1..count |->
        DiscoveredTheme("T", 1,
            IF k < count
            THEN (IF k <= n THEN <<IntVal(k - 1)>> ELSE <<>>)
            ELSE [j \in 1..(IF n >= count THEN n - count + 1 ELSE 0) |->
                    IntVal(count - 2 + j)])]

DiscoveryThemeLists(batch) ==
    LET n == Len(batch) IN
    { <<>>,
      <<DiscoveredTheme("T", 1, AllIndices(n))>>,
      <<DiscoveredTheme("T", 1, PrintedIndices(n))>>,
      <<DiscoveredTheme("T", 1, SubSeq(AllIndices(n), 1, n - 1))>>,
      <<DiscoveredTheme("T", None, AllIndices(n))>>,
      <<DiscoveredTheme("T", 99, AllIndices(n))>>,
      <<DiscoveredTheme("T", 0, AllIndices(n))>>,
      <<DiscoveredTheme("T", 1, AllIndices(n)), DiscoveredTheme("U", 2, <<IntVal(0)>>)>>,
      <<DiscoveredTheme("T", 1, AllIndices(n)), DiscoveredTheme("U", None, <<IntVal(0)>>)>>,
      <<DiscoveredTheme("T", 1, <<IntVal(0), IntVal(0), IntVal(99), StrVal(<<"x", "y", "z">>)>>)>>,
      <<[theme_name |-> "T", product_area_id |-> 2,
         post_ids |-> [k \in 1..n |-> StrVal(batch[k])]]>>,
      <<DiscoveredTheme("T", 1, <<IntVal(0)>>), DiscoveredTheme(NullName, 2, AllIndices(n))>>,
      ManyThemes(MAX_PER_AREA + 1, n),
      ManyThemes(FALLBACK_KEEP + 1, n) }

TerseThemeLists(batch) ==
    LET n == Len(batch) IN
    { <<DiscoveredTheme("T", 1, AllIndices(n))>>,
      <<DiscoveredTheme("T", None, AllIndices(n))>>,
      ManyThemes(MAX_PER_AREA + 1, n) }

DiscoveryResults(batch) ==
    { [t |-> "null"], [t |-> "malformed"] }
      \cup { [t |-> "object", themes |-> l] : l \in TerseThemeLists(batch) }
      \cup (IF llm = "terse" THEN {}
            ELSE { [t |-> "object"] }
                   \cup { [t |-> "object", themes |-> l] :
                          l \in DiscoveryThemeLists(batch) })

-----------------------------------------------------------------------------
(* Run worker: run_clustering and the full-run path.                       *)

NewRun(run_type, status) ==
    [run_type |-> run_type, status |-> status, posts_processed |-> 0,
     themes_created |-> 0, themes_updated |-> 0, error_message |-> "",
     completed_at |-> "null"]

\* the locals of one run_clustering invocation
NoLocals ==
    [pc |-> "done", run_type |-> "", thread |-> "", post_list |-> <<>>, all_post_ids |-> {},
     i |-> 0, all_discovered_themes |-> <<>>, uncategorized_post_ids |-> {},
     area_queue |-> <<>>, consolidated |-> <<>>, rounds |-> 0,
     final_themes |-> <<>>, created_theme_ids |-> <<>>, mapped_post_ids |-> {},
     themes_created |-> 0, themes_updated |-> 0, existing_themes |-> <<>>,
     affected_theme_ids |-> {}, new_theme_ids |-> <<>>, result |-> "none"]

\* background_tasks.add_task(clustering_service.run_clustering, id, run_type)
\* puts the coroutine on the server's event loop (thread "loop"); the
\* scheduler job runs it with asyncio.run in its own thread ("scheduler")
Dispatched(run_type, thread) ==
    [NoLocals EXCEPT !.pc = "start", !.run_type = run_type, !.thread = thread]

\* positions that are not at an await: the coroutine holds its event loop
MidSegment == {"full", "persist", "uncategorized", "finish", "finish_incremental"}

\* coroutines of one event loop interleave at their awaits only
Scheduled(r) ==
    workers[r].thread = "loop" =>
        \A other \in DOMAIN workers \ {r} :
            workers[other].thread = "loop" => workers[other].pc \notin MidSegment

Truthy(value) == value # None /\ value # 0

\* product areas of the themes that have one, in order of first appearance
AreaOrder(theme_list) ==
    LET firsts == { k \in 1..Len(theme_list) :
                      /\ theme_list[k].product_area_id # None
                      /\ \A j \in 1..(k - 1) :
                            theme_list[j].product_area_id # theme_list[k].product_area_id }
        at == SortedInts(firsts)
    IN  [i \in 1..Len(at) |-> theme_list[at[i]].product_area_id]

\* themes_by_area[pa_id]
AreaThemes(theme_list, pa_id) ==
    SelectSeq(theme_list, LAMBDA th : th.product_area_id = pa_id)

\* the posts of the themes without product area forgotten
NullAreaPostIdsDropped(theme_list) == {}

\* posts of the themes without product area
NullAreaPostIds(theme_list) ==
    UNION { Range(theme_list[k].post_ids) :
            k \in { j \in 1..Len(theme_list) : theme_list[j].product_area_id = None } }

\* a loop condition that lets one round more through
NeedsRoundOneMore(consolidated, rounds) ==
    Len(consolidated) > MAX_PER_AREA /\ rounds <= MAX_CONSOLIDATION_ROUNDS

\* "while len(consolidated) > MAX_PER_AREA and rounds < MAX_CONSOLIDATION_ROUNDS";
\* a bucket within the cap fails it before its first round
NeedsRound(consolidated, rounds) ==
    Len(consolidated) > MAX_PER_AREA /\ rounds < MAX_CONSOLIDATION_ROUNDS

\* the per-area loop up to its next LLM call: areas within the cap, and areas
\* whose rounds are used up, pass to final_themes
RECURSIVE Settle(_)
Settle(w) ==
    IF w.area_queue = <<>> THEN [w EXCEPT !.pc = "persist"]
    ELSE IF NeedsRound(w.consolidated, w.rounds)
    THEN [w EXCEPT !.pc = "consolidate"]
    ELSE LET rest == Tail(w.area_queue) IN
         Settle([w EXCEPT
            !.final_themes = @ \o w.consolidated,
            !.area_queue = rest,
            !.consolidated = IF rest = <<>> THEN <<>>
                             ELSE AreaThemes(w.all_discovered_themes, Head(rest)),
            !.rounds = 0])

\* after the discovery loop: group by product area, enter the per-area loop
GroupByArea(w) ==
    LET order == AreaOrder(w.all_discovered_themes) IN
    Settle([w EXCEPT
        !.uncategorized_post_ids = NullAreaPostIds(w.all_discovered_themes),
        !.area_queue = order,
        !.consolidated = IF order = <<>> THEN <<>>
                         ELSE AreaThemes(w.all_discovered_themes, Head(order)),
        !.rounds = 0,
        !.final_themes = <<>>])

\* except-branch of run_clustering
MarkFailed(r, message) ==
    IF r \in DOMAIN runs
    THEN [runs EXCEPT ![r].status = "failed", ![r].error_message = message,
                      ![r].completed_at = "now"]
    ELSE runs

MarkCompleted(r) ==
    [runs EXCEPT ![r].status = "completed", ![r].completed_at = "now"]

\* the deactivation and the deletion left for the persistence step
BeginFullKeepingOld(r) ==
    IF posts = <<>>
    THEN /\ runs' = MarkCompleted(r)
         /\ workers' = [workers EXCEPT ![r] = NoLocals]
         /\ UNCHANGED <<themes, mappings>>
    ELSE /\ workers' = [workers EXCEPT ![r] =
                [NoLocals EXCEPT !.pc = "discover", !.run_type = workers[r].run_type,
                                 !.thread = workers[r].thread,
                                 !.post_list = posts, !.all_post_ids = Range(posts)]]
         /\ UNCHANGED <<runs, themes, mappings>>

\* _run_full_clustering up to its first LLM call
BeginFull(r) ==
    IF posts = <<>>
    THEN /\ runs' = MarkCompleted(r)
         /\ workers' = [workers EXCEPT ![r] = NoLocals]
         /\ UNCHANGED <<themes, mappings>>
    ELSE /\ themes' = [t \in 1..Len(themes) |-> [themes[t] EXCEPT !.is_active = FALSE]]
         /\ mappings' = <<>>
         /\ workers' = [workers EXCEPT ![r] =
                [NoLocals EXCEPT !.pc = "discover", !.run_type = workers[r].run_type,
                                 !.thread = workers[r].thread,
                                 !.post_list = posts, !.all_post_ids = Range(posts)]]
         /\ UNCHANGED runs

\* run_clustering with run_type "full", or the incremental path with no
\* active theme, up to the first LLM call
StartFull(r) ==
    /\ r \in DOMAIN workers
    /\ \/ workers[r].pc = "start" /\ workers[r].run_type = "full"
       \/ workers[r].pc = "full"
    /\ Scheduled(r)
    /\ IF r \notin DOMAIN runs
       THEN /\ workers' = [workers EXCEPT ![r] = NoLocals]
            /\ UNCHANGED <<runs, themes, mappings>>
       ELSE BeginFull(r)
    /\ UNCHANGED <<posts, analyses, requests, call, llm>>

\* a gateway result that is null instead of an object makes its caller raise
RaisesOnNull(result) == result.t \in {"malformed", "null"}

\* a gateway result of another JSON shape than its caller reads (a list, a
\* "themes" that is no list of objects) makes the caller raise
Raises(result) == result.t = "malformed"

\* an exception out of the pipeline, caught in run_clustering
Raise(r, message, result) ==
    /\ runs' = MarkFailed(r, message)
    /\ workers' = [workers EXCEPT ![r] = [NoLocals EXCEPT !.result = result.t]]

\* db.flush() of a PainTheme whose name is None: the NOT NULL constraint of
\* pain_themes.name fails and the session rolls its transaction back.  The
\* except-branch of run_clustering then queries through the same session
\* without db.rollback(), which raises again, so the branch writes nothing:
\* the run row keeps the status it has and the rows added since the last
\* commit are gone when the session closes.
FlushFails(r) ==
    /\ workers' = [workers EXCEPT ![r] = NoLocals]
    /\ UNCHANGED <<runs, themes, mappings>>

\* name=None among the themes to persist
HasNullName(theme_list) ==
    \E k \in 1..Len(theme_list) : theme_list[k].theme_name = NullName

\* one pass of the discovery loop: LLM call, result, checkpoint commit
DiscoverBatch(r) ==
    /\ r \in DOMAIN workers
    /\ workers[r].pc = "discover"
    /\ Scheduled(r)
    /\ LET w == workers[r]
           batch == Batch(w.post_list, w.i)
       IN  \E result \in DiscoveryResults(batch) :
             IF Raises(result)
             THEN Raise(r, "error", result)
             ELSE LET found == w.all_discovered_themes \o DiscoverThemesInBatch(batch, result)
                      next == [w EXCEPT !.all_discovered_themes = found,
                                        !.i = w.i + BATCH_SIZE,
                                        !.result = result.t]
                  IN  /\ runs' = [runs EXCEPT ![r].posts_processed =
                                                ProcessedAfter(w.post_list, w.i)]
                      /\ workers' = [workers EXCEPT ![r] =
                            IF next.i < Len(w.post_list) THEN next ELSE GroupByArea(next)]
    /\ UNCHANGED <<posts, analyses, themes, mappings, requests, call, llm>>

Entry(pa, raw) == [theme_name |-> "M", product_area_id |-> pa, merged_from |-> raw]

\* the LLM as consolidation oracle
WorkerConsolidationResults(theme_count) ==
    { [t |-> "null"], [t |-> "malformed"],
      [t |-> "object", themes |-> <<Entry(1, AllIndices(theme_count))>>] }
      \cup
    (IF llm = "terse" THEN {}
     ELSE { [t |-> "object"],
            [t |-> "object", themes |-> <<>>],
            [t |-> "object", themes |-> <<Entry(None, AllIndices(theme_count))>>],
            [t |-> "object", themes |-> <<Entry(1, <<IntVal(0), IntVal(1)>>)>>],
            [t |-> "object", themes |-> <<Entry(1, <<IntVal(0), IntVal(1)>>),
                                          Entry(2, <<IntVal(1),
                                                     StrVal(ThemePrefix \o StrOf(2))>>)>>] })

\* one consolidation round of the current product area
ConsolidateRound(r) ==
    /\ r \in DOMAIN workers
    /\ workers[r].pc = "consolidate"
    /\ Scheduled(r)
    /\ LET w == workers[r] IN
       \E result \in WorkerConsolidationResults(Len(w.consolidated)) :
          IF Raises(result)
          THEN Raise(r, "error", result)
          ELSE /\ workers' = [workers EXCEPT ![r] =
                    Settle([w EXCEPT !.rounds = w.rounds + 1,
                                     !.result = result.t,
                                     !.consolidated = ConsolidateThemes(w.consolidated, result)])]
               /\ UNCHANGED runs
    /\ UNCHANGED <<posts, analyses, themes, mappings, requests, call, llm>>

\* "if product_area_id and product_area_id not in valid_pa_ids: ... = None"
ValidatedArea(product_area_id) ==
    IF Truthy(product_area_id) /\ product_area_id \notin ActiveProductAreaIds
    THEN None
    ELSE product_area_id

\* the mapping rows of one theme: its post ids that are in known_post_ids
ThemeMappings(post_ids, theme_id, known_post_ids) ==
    LET kept == SelectSeq(post_ids, LAMBDA p : p \in known_post_ids)
    IN  [k \in 1..Len(kept) |-> NewMapping(kept[k], theme_id, "1.0")]

\* the mapping rows of final_themes, whose first theme gets id first_id
AllThemeMappings(theme_list, first_id, known_post_ids) ==
    LET rows == [k \in 1..Len(theme_list) |->
                    ThemeMappings(theme_list[k].post_ids, first_id + k - 1,
                                  known_post_ids)]
        filled == UNION { { <<k, j>> : j \in 1..Len(rows[k]) } : k \in 1..Len(rows) }
        Before(a, b) == a[1] < b[1] \/ (a[1] = b[1] /\ a[2] < b[2])
    IN  [i \in 1..Cardinality(filled) |->
            LET pl == CHOOSE x \in filled :
                        Cardinality({ y \in filled : Before(y, x) }) = i - 1
            IN  rows[pl[1]][pl[2]]]

\* the theme rows and mapping rows of final_themes, committed together
PersistThemes(r) ==
    /\ r \in DOMAIN workers
    /\ workers[r].pc = "persist"
    /\ Scheduled(r)
    /\ LET w == workers[r]
           first_id == Len(themes) + 1
           rows == [k \in 1..Len(w.final_themes) |->
                      NewTheme(w.final_themes[k].theme_name,
                               ValidatedArea(w.final_themes[k].product_area_id), r)]
       IN  IF HasNullName(w.final_themes)
           THEN FlushFails(r)
           ELSE /\ themes' = themes \o rows
                /\ mappings' = mappings \o AllThemeMappings(w.final_themes, first_id,
                                                            w.all_post_ids)
                /\ workers' = [workers EXCEPT ![r] =
                      [w EXCEPT !.pc = "uncategorized",
                                !.created_theme_ids =
                                    [k \in 1..Len(rows) |-> first_id + k - 1],
                                !.mapped_post_ids = AllPostIds(w.final_themes) \cap w.all_post_ids,
                                !.themes_created = Len(rows)]]
                /\ UNCHANGED runs
    /\ UNCHANGED <<posts, analyses, requests, call, llm>>

UncategorizedName == "Uncategorized posts"

\* only the posts of themes without product area
UnmappedPostIdsOfNullAreas(all_post_ids, mapped_post_ids, uncategorized_post_ids) ==
    uncategorized_post_ids \cap all_post_ids

\* (all_post_ids - mapped_post_ids) | (uncategorized_post_ids & all_post_ids)
UnmappedPostIds(all_post_ids, mapped_post_ids, uncategorized_post_ids) ==
    (all_post_ids \ mapped_post_ids) \cup (uncategorized_post_ids \cap all_post_ids)

\* the "Uncategorized" theme for the posts no theme covers and the posts of
\* themes without product area
CreateUncategorized(r) ==
    /\ r \in DOMAIN workers
    /\ workers[r].pc = "uncategorized"
    /\ Scheduled(r)
    /\ LET w == workers[r]
           unmapped_post_ids == UnmappedPostIds(w.all_post_ids, w.mapped_post_ids,
                                                w.uncategorized_post_ids)
           theme_id == Len(themes) + 1
           unmapped == ListOfSet(unmapped_post_ids)
       IN  IF unmapped_post_ids # {}
           THEN /\ themes' = Append(themes, NewTheme(UncategorizedName, None, r))
                /\ mappings' = mappings \o
                      [k \in 1..Len(unmapped) |-> NewMapping(unmapped[k], theme_id, "0.5")]
                /\ workers' = [workers EXCEPT ![r] =
                      [w EXCEPT !.pc = "finish",
                                !.created_theme_ids = Append(@, theme_id),
                                !.themes_created = @ + 1]]
           ELSE /\ workers' = [workers EXCEPT ![r].pc = "finish"]
                /\ UNCHANGED <<themes, mappings>>
    /\ UNCHANGED <<posts, analyses, runs, requests, call, llm>>

\* severities of the created themes, counters, status "completed"
FinishFull(r) ==
    /\ r \in DOMAIN workers
    /\ workers[r].pc = "finish"
    /\ Scheduled(r)
    /\ LET w == workers[r] IN
       /\ themes' = [t \in 1..Len(themes) |->
                       IF t \in Range(w.created_theme_ids)
                       THEN [themes[t] EXCEPT
                               !.severity = CalculateSeverityFromSentiments(t)]
                       ELSE themes[t]]
       /\ runs' = [runs EXCEPT ![r].themes_created = w.themes_created,
                               ![r].status = "completed",
                               ![r].completed_at = "now"]
       /\ workers' = [workers EXCEPT ![r] = NoLocals]
    /\ UNCHANGED <<posts, analyses, mappings, requests, call, llm>>

-----------------------------------------------------------------------------
(* Run worker: the incremental path.                                       *)

\* posts without any mapping, created_utc descending
UnmappedPosts ==
    SelectSeq(posts, LAMBDA p : \A k \in 1..Len(mappings) : mappings[k].post_id # p)

\* no active theme taken as nothing to do: the run completes at once
RunFullInsteadSkipped(r) ==
    /\ runs' = MarkCompleted(r)
    /\ workers' = [workers EXCEPT ![r] = NoLocals]

\* "if not existing_themes: await self._run_full_clustering(db, clustering_run)"
RunFullInstead(r) ==
    /\ workers' = [workers EXCEPT ![r].pc = "full"]
    /\ UNCHANGED runs

\* run_clustering with run_type "incremental", up to the first LLM call
StartIncremental(r) ==
    /\ r \in DOMAIN workers
    /\ workers[r].pc = "start"
    /\ workers[r].run_type = "incremental"
    /\ Scheduled(r)
    /\ IF r \notin DOMAIN runs
       THEN /\ workers' = [workers EXCEPT ![r] = NoLocals]
            /\ UNCHANGED runs
       ELSE IF ActiveThemeIds = {}
       THEN RunFullInstead(r)
       ELSE IF UnmappedPosts = <<>>
       THEN /\ runs' = MarkCompleted(r)
            /\ workers' = [workers EXCEPT ![r] = NoLocals]
       ELSE /\ workers' = [workers EXCEPT ![r] =
                  [@ EXCEPT !.pc = "assign", !.post_list = UnmappedPosts, !.i = 0,
                            !.existing_themes = SortedInts(ActiveThemeIds)]]
            /\ UNCHANGED runs
    /\ UNCHANGED <<posts, analyses, themes, mappings, requests, call, llm>>

\* assignment.get("post_index"), else assignment.get("post_id")
RawPostValue(assignment) ==
    IF "post_index" \in DOMAIN assignment
    THEN assignment.post_index
    ELSE Get(assignment, "post_id", [t |-> "other"])

\* the assignments whose reference resolves, with the post id it resolves to
MappedAssignments(assignments, batch) ==
    LET index_to_post_id == IndexToPostId(batch)
        idxs == [k \in 1..Len(assignments) |->
                    ParsePostReference(RawPostValue(assignments[k]), index_to_post_id,
                                       PostIdToIndex(batch))]
        resolved == SelectSeq([k \in 1..Len(assignments) |-> k],
                              LAMBDA k : idxs[k] # None)
    IN  [i \in 1..Len(resolved) |->
            [post_id |-> index_to_post_id[idxs[resolved[i]]],
             theme_id |-> Get(assignments[resolved[i]], "theme_id", None),
             confidence |-> Get(assignments[resolved[i]], "confidence", "1.0")]]

\* _assign_posts_to_themes on a result that is not null
AssignPostsToThemes(batch, result) ==
    [assignments |-> MappedAssignments(Get(result, "assignments", <<>>), batch),
     new_themes |-> LET raw == Get(result, "new_themes", <<>>) IN
        [k \in 1..Len(raw) |->
            [theme_name |-> Get(raw[k], "theme_name", ""),
             product_area_id |-> Get(raw[k], "product_area_id", None),
             post_ids |-> ResolvePostIds(RawPostValues(raw[k]), batch)]]]

(* The LLM as assignment oracle.                                           *)

Assignment(raw, theme_id) == [post_index |-> raw, theme_id |-> theme_id]

AssignmentResults(batch, existing_themes) ==
    LET n == Len(batch)
        first == existing_themes[1]
        everyone == [k \in 1..n |-> Assignment(IntVal(k - 1), first)]
        new_theme == DiscoveredTheme("N", 1, AllIndices(n))
    IN  { [t |-> "null"], [t |-> "malformed"],
          [t |-> "object", assignments |-> everyone],
          [t |-> "object", new_themes |-> <<new_theme>>] }
          \cup
        (IF llm = "terse" THEN {}
         ELSE { [t |-> "object"],
                [t |-> "object", assignments |-> SubSeq(everyone, 1, n - 1)],
                [t |-> "object", assignments |-> <<Assignment(IntVal(0), 99)>>],
                [t |-> "object", assignments |-> <<Assignment(IntVal(0), None)>>],
                [t |-> "object", assignments |-> <<Assignment(IntVal(0), 0)>>],
                [t |-> "object", assignments |-> <<Assignment(IntVal(0), first),
                                                   Assignment(IntVal(0), first)>>],
                [t |-> "object", assignments |->
                      <<[post_id |-> StrVal(batch[1]), theme_id |-> first,
                         confidence |-> "0.5"]>>],
                [t |-> "object", new_themes |->
                      <<DiscoveredTheme("N", 99, PrintedIndices(n))>>],
                [t |-> "object", assignments |-> everyone,
                                 new_themes |-> <<DiscoveredTheme(NullName, 1, <<>>)>>],
                [t |-> "object", assignments |-> everyone,
                                 new_themes |-> <<new_theme>>] })

\* the list of the next batch without the themes this batch created
ThemesForNextBatchUnthreaded(existing_themes, new_ids) == existing_themes

\* "existing_themes.append(theme)  # Add to list for next batch"
ThemesForNextBatch(existing_themes, new_ids) == existing_themes \o new_ids

\* the assignments that carry a theme id
WithTheme(assignments) == SelectSeq(assignments, LAMBDA a : Truthy(a.theme_id))

\* one pass of the assignment loop: LLM call, mappings, new themes with
\* their mappings, checkpoint commit
AssignBatch(r) ==
    /\ r \in DOMAIN workers
    /\ workers[r].pc = "assign"
    /\ Scheduled(r)
    /\ LET w == workers[r]
           batch == Batch(w.post_list, w.i)
           pc_after == IF w.i + BATCH_SIZE < Len(w.post_list)
                       THEN "assign" ELSE "finish_incremental"
       IN  \E result \in AssignmentResults(batch, w.existing_themes) :
             IF Raises(result)
             THEN /\ Raise(r, "error", result)
                  /\ UNCHANGED <<themes, mappings>>
             ELSE IF result.t = "null"
             THEN /\ runs' = [runs EXCEPT ![r].posts_processed =
                                            ProcessedAfter(w.post_list, w.i)]
                  /\ workers' = [workers EXCEPT ![r] =
                        [w EXCEPT !.pc = pc_after, !.i = w.i + BATCH_SIZE,
                                  !.result = result.t]]
                  /\ UNCHANGED <<themes, mappings>>
             ELSE LET mapped == AssignPostsToThemes(batch, result)
                      assigned == WithTheme(mapped.assignments)
                      first_id == Len(themes) + 1
                      new_ids == [k \in 1..Len(mapped.new_themes) |-> first_id + k - 1]
                  IN  IF HasNullName(mapped.new_themes) THEN FlushFails(r) ELSE
                      /\ themes' = themes \o
                            [k \in 1..Len(mapped.new_themes) |->
                               NewTheme(mapped.new_themes[k].theme_name,
                                        ValidatedArea(mapped.new_themes[k].product_area_id),
                                        r)]
                      /\ mappings' = mappings
                            \o [k \in 1..Len(assigned) |->
                                  NewMapping(assigned[k].post_id, assigned[k].theme_id,
                                             assigned[k].confidence)]
                            \o AllThemeMappings(mapped.new_themes, first_id, Range(posts))
                      /\ runs' = [runs EXCEPT ![r].posts_processed =
                                                ProcessedAfter(w.post_list, w.i)]
                      /\ workers' = [workers EXCEPT ![r] =
                            [w EXCEPT
                               !.pc = pc_after, !.i = w.i + BATCH_SIZE,
                               !.result = result.t,
                               !.themes_updated = @ + Len(assigned),
                               !.affected_theme_ids =
                                   @ \cup { assigned[k].theme_id : k \in 1..Len(assigned) },
                               !.new_theme_ids = @ \o new_ids,
                               !.themes_created = @ + Len(new_ids),
                               !.existing_themes = ThemesForNextBatch(@, new_ids)]]
    /\ UNCHANGED <<posts, analyses, requests, call, llm>>

\* every active theme, affected or not
ThemesToUpdateAllActive(affected_theme_ids, new_theme_ids) ==
    ActiveThemeIds \cup affected_theme_ids \cup Range(new_theme_ids)

\* affected_theme_ids.union(set(new_theme_ids))
ThemesToUpdate(affected_theme_ids, new_theme_ids) ==
    affected_theme_ids \cup Range(new_theme_ids)

\* severities of the affected and the new themes, counters, "completed"
FinishIncremental(r) ==
    /\ r \in DOMAIN workers
    /\ workers[r].pc = "finish_incremental"
    /\ Scheduled(r)
    /\ LET w == workers[r]
           all_themes_to_update == ThemesToUpdate(w.affected_theme_ids, w.new_theme_ids)
       IN  /\ themes' = [t \in 1..Len(themes) |->
                           IF t \in all_themes_to_update
                           THEN [themes[t] EXCEPT
                                   !.severity = CalculateSeverityFromSentiments(t)]
                           ELSE themes[t]]
           /\ runs' = [runs EXCEPT ![r].themes_created = w.themes_created,
                                   ![r].themes_updated = w.themes_updated,
                                   ![r].status = "completed",
                                   ![r].completed_at = "now"]
           /\ workers' = [workers EXCEPT ![r] = NoLocals]
    /\ UNCHANGED <<posts, analyses, mappings, requests, call, llm>>

-----------------------------------------------------------------------------
(* Run Coordinator: routers/clustering.py and the scheduled job.           *)

MaxRuns == 2
MaxCallers == 2
MaxSchedulerJobs == 1

RunTypes == {"full", "incremental"}

RunIds == 1..MaxRuns

\* the id SQLite gives the next ClusteringRun row: one above the largest
NextRunId ==
    IF DOMAIN runs = {} THEN 1
    ELSE (CHOOSE r \in DOMAIN runs : \A other \in DOMAIN runs : other <= r) + 1

Idle == [pc |-> "idle", run_type |-> "", run_id |-> 0, existing_running |-> FALSE,
         stuck_runs |-> {}, response |-> "none"]

\* trigger_clustering_run: the row is inserted with status "pending"
InsertPending(c, run_type) ==
    /\ requests[c].pc = "idle"
    /\ NextRunId <= MaxRuns
    /\ runs' = runs @@ (NextRunId :> NewRun(run_type, "pending"))
    /\ requests' = [requests EXCEPT ![c] =
          [Idle EXCEPT !.pc = "check", !.run_type = run_type, !.run_id = NextRunId]]
    /\ UNCHANGED <<posts, analyses, themes, mappings, workers, call, llm>>

\* the check that looks for other rows with status "pending" only
CheckOtherRunPendingOnly(c) ==
    /\ requests[c].pc = "check"
    /\ requests' = [requests EXCEPT ![c] =
          [@ EXCEPT !.pc = "decide",
                    !.existing_running =
                        \E r \in DOMAIN runs \ {requests[c].run_id} :
                            runs[r].status \in {"pending"}]]
    /\ UNCHANGED <<posts, analyses, runs, themes, mappings, workers, call, llm>>

\* trigger_clustering_run: is any other row "running" or "pending"
CheckOtherRun(c) ==
    /\ requests[c].pc = "check"
    /\ requests' = [requests EXCEPT ![c] =
          [@ EXCEPT !.pc = "decide",
                    !.existing_running =
                        \E r \in DOMAIN runs \ {requests[c].run_id} :
                            runs[r].status \in {"running", "pending"}]]
    /\ UNCHANGED <<posts, analyses, runs, themes, mappings, workers, call, llm>>

\* the 409 answered with the pending row left in the table
RejectRunKeepingRow(c) ==
    /\ requests[c].pc = "decide"
    /\ requests[c].existing_running
    /\ requests' = [requests EXCEPT ![c] =
          [@ EXCEPT !.pc = "returned", !.response = "conflict"]]
    /\ UNCHANGED <<posts, analyses, runs, themes, mappings, workers, call, llm>>

\* trigger_clustering_run: delete the row and answer 409
RejectRun(c) ==
    /\ requests[c].pc = "decide"
    /\ requests[c].existing_running
    /\ runs' = [r \in DOMAIN runs \ {requests[c].run_id} |-> runs[r]]
    /\ requests' = [requests EXCEPT ![c] =
          [@ EXCEPT !.pc = "returned", !.response = "conflict"]]
    /\ UNCHANGED <<posts, analyses, themes, mappings, workers, call, llm>>

\* trigger_clustering_run: status "running", worker dispatched, answer 200
PromoteRun(c) ==
    /\ requests[c].pc = "decide"
    /\ ~requests[c].existing_running
    /\ LET r == requests[c].run_id IN
       /\ runs' = [runs EXCEPT ![r].status = "running"]
       /\ workers' = workers @@ (r :> Dispatched(requests[c].run_type, "loop"))
    /\ requests' = [requests EXCEPT ![c] =
          [@ EXCEPT !.pc = "returned", !.response = "ok"]]
    /\ UNCHANGED <<posts, analyses, themes, mappings, call, llm>>

\* cancel_stuck_run: the rows with status "running" are read
ReadStuckRuns(c) ==
    /\ requests[c].pc = "idle"
    /\ LET stuck_runs == { r \in DOMAIN runs : runs[r].status = "running" } IN
       requests' = [requests EXCEPT ![c] =
          IF stuck_runs = {}
          THEN [Idle EXCEPT !.pc = "returned", !.response = "cancelled 0"]
          ELSE [Idle EXCEPT !.pc = "cancel", !.stuck_runs = stuck_runs]]
    /\ UNCHANGED <<posts, analyses, runs, themes, mappings, workers, call, llm>>

\* cancel_stuck_run: the rows read are written as "failed" and committed
FailStuckRuns(c) ==
    /\ requests[c].pc = "cancel"
    /\ runs' = [r \in DOMAIN runs |->
                  IF r \in requests[c].stuck_runs
                  THEN [runs[r] EXCEPT !.status = "failed",
                                       !.error_message = "cancelled",
                                       !.completed_at = "now"]
                  ELSE runs[r]]
    /\ requests' = [requests EXCEPT ![c] =
          [@ EXCEPT !.pc = "returned", !.response = "cancelled"]]
    /\ UNCHANGED <<posts, analyses, themes, mappings, workers, call, llm>>

\* SchedulerService._run_clustering_job: the row is inserted with status
\* "running" and the incremental worker runs in the scheduler's thread
RunClusteringJob ==
    /\ NextRunId <= MaxRuns
    /\ Cardinality({ r \in DOMAIN workers : workers[r].thread = "scheduler" })
          < MaxSchedulerJobs
    /\ runs' = runs @@ (NextRunId :> NewRun("incremental", "running"))
    /\ workers' = workers @@ (NextRunId :> Dispatched("incremental", "scheduler"))
    /\ UNCHANGED <<posts, analyses, themes, mappings, requests, call, llm>>


-----------------------------------------------------------------------------
(* Direct calls of the resolver on one batch.                              *)

MaxBatchN == 3
MaxStrLen == 3

StrAlphabet == {"0", "1", "9", "a", "A", " "}

RECURSIVE StringsUpTo(_)
StringsUpTo(n) ==
    IF n = 0 THEN {<<>>}
    ELSE StringsUpTo(n - 1) \cup
         { Append(s, c) : s \in { x \in StringsUpTo(n - 1) : Len(x) = n - 1 },
                          c \in StrAlphabet }

\* "3", "Post 3", "[Post 3]", "post 3"
NumberedStrings ==
    UNION { { StrOf(k),
              PostPrefix \o StrOf(k),
              <<"[">> \o PostPrefix \o StrOf(k) \o <<"]">>,
              Lower(PostPrefix) \o StrOf(k) } : k \in 0..(MaxBatchN + 1) }

RawValues ==
    [t : {"int"}, n : (0 - 1)..(MaxBatchN + 1) \cup {99}]
      \cup [t : {"bool"}, b : BOOLEAN]
      \cup [t : {"str"}, s : StringsUpTo(MaxStrLen) \cup NumberedStrings]
      \cup {[t |-> "other"]}

\* Reddit post ids are base-36 strings
PostIdPool == { <<"a", "1">>, <<"A", "1">>, <<"1", "a">>, <<"9">> }

RECURSIVE DistinctSeqs(_, _)
DistinctSeqs(S, n) ==
    IF n = 0 THEN {<<>>}
    ELSE LET shorter == DistinctSeqs(S, n - 1) IN
         shorter \cup
         UNION { { Append(q, x) : x \in S \ Range(q) } :
                 q \in { y \in shorter : Len(y) = n - 1 } }

InitResolver ==
    /\ posts \in DistinctSeqs(PostIdPool, MaxBatchN)
    /\ analyses = <<>>
    /\ runs = <<>>
    /\ themes = <<>>
    /\ mappings = <<>>
    /\ workers = <<>>
    /\ requests = <<>>
    /\ call \in [op : {"input"}, value : RawValues]
    /\ llm = "adversarial"

\* idx = self._parse_post_reference(val, index_to_post_id, post_id_to_index)
ResolveReference ==
    /\ call.op = "input"
    /\ call' = [op |-> "resolve", value |-> call.value,
                result |-> ParsePostReference(call.value, IndexToPostId(posts),
                                              PostIdToIndex(posts))]
    /\ UNCHANGED <<posts, analyses, runs, themes, mappings, workers, requests, llm>>

NextResolver == ResolveReference

SpecResolver == InitResolver /\ [][NextResolver]_vars

-----------------------------------------------------------------------------
(* Severity recalculation over stored themes, mappings and judgments.      *)

MaxSevPosts == 3
MaxAnalyses == 3

SomePostIds == << <<"a", "1">>, <<"b", "2">>, <<"1", "a">>, <<"t", "9">>, <<"x", "0">> >>

InitSeverity ==
    /\ \E n \in 0..MaxSevPosts : posts = SubSeq(SomePostIds, 1, n)
    /\ analyses \in SeqsUpTo([post_id : Range(posts), sentiment : Sentiments],
                             MaxAnalyses)
    /\ runs = <<>>
    /\ themes = << NewTheme("A", 1, None), NewTheme("B", 2, None) >>
    /\ \E f \in [1..Len(posts) -> 1..2] :
          mappings = [i \in 1..Len(posts) |-> NewMapping(posts[i], f[i], "1.0")]
    /\ workers = <<>>
    /\ requests = <<>>
    /\ call = [op |-> "input"]
    /\ llm = "adversarial"

NextSeverity == RecalculateSeverity

SpecSeverity == InitSeverity /\ [][NextSeverity]_vars

\* the calculator called for one theme after another
NextCalculate == \E t \in 1..2 : CalculateSeverity(t)

SpecCalculate == InitSeverity /\ [][NextCalculate]_vars

-----------------------------------------------------------------------------
(* Direct calls of the consolidation step.                                 *)

MaxFreeThemes == 2
MaxPadThemes == 14
MaxEntries == 2

\* merged_from lists an LLM may return for theme_count source themes
MergedFromLists(theme_count) ==
    { <<>>,
      <<IntVal(0)>>,
      <<IntVal(1)>>,
      <<IntVal(0), IntVal(1)>>,
      <<StrVal(ThemePrefix \o StrOf(1)), StrVal(StrOf(IF theme_count > 0 THEN theme_count - 1 ELSE 0))>>,
      <<IntVal(99)>> }

\* one consolidated theme of a response, under the asked or a fallback key
ConsolidatedEntries(theme_count) ==
    { [theme_name |-> "M", product_area_id |-> 1, merged_from |-> l] :
        l \in MergedFromLists(theme_count) }
      \cup { [theme_name |-> "M", product_area_id |-> 1,
              indices |-> <<IntVal(0), IntVal(1)>>] }

ConsolidationResults(theme_count) ==
    { [t |-> "null"], [t |-> "object"] }
      \cup { [t |-> "object", themes |-> es] :
             es \in SeqsUpTo(ConsolidatedEntries(theme_count), MaxEntries) }

\* theme lists: a few themes over two posts, then themes of one post each
FreeThemes ==
    [theme_name : {"T"}, product_area_id : {1},
     post_ids : { <<>>, <<PostIdOf(1)>>, <<PostIdOf(2)>>, <<PostIdOf(1), PostIdOf(2)>> }]

PadThemes(k) ==
    [i \in 1..k |-> [theme_name |-> "T", product_area_id |-> 1,
                     post_ids |-> <<PostIdOf(2 + i)>>]]

InitConsolidate ==
    /\ posts = [i \in 1..(2 + MaxPadThemes) |-> PostIdOf(i)]
    /\ analyses = <<>>
    /\ runs = <<>>
    /\ themes = <<>>
    /\ mappings = <<>>
    /\ workers = <<>>
    /\ requests = <<>>
    /\ \E free \in SeqsUpTo(FreeThemes, MaxFreeThemes), k \in 0..MaxPadThemes :
          call = [op |-> "input", themes |-> free \o PadThemes(k)]
    /\ llm = "adversarial"

\* consolidated = await self._consolidate_themes(consolidated)
Consolidate ==
    /\ call.op = "input"
    /\ \E result \in ConsolidationResults(Len(call.themes)) :
          call' = [op |-> "consolidate", themes |-> call.themes,
                   result |-> result,
                   output |-> ConsolidateThemes(call.themes, result)]
    /\ UNCHANGED <<posts, analyses, runs, themes, mappings, workers, requests, llm>>

NextConsolidate == Consolidate

SpecConsolidate == InitConsolidate /\ [][NextConsolidate]_vars

-----------------------------------------------------------------------------
(* The service: endpoints, scheduled job and run workers together.         *)

MaxPosts == 1

PostList(n) == [k \in 1..n |-> PostIdOf(k)]

Callers == 1..MaxCallers

\* either nothing has run yet, or an earlier full run has completed and the
\* posts in the store arrived after it
Init ==
    /\ \E n \in 0..MaxPosts : posts = PostList(n)
    /\ analyses \in { <<>> } \cup
          { <<[post_id |-> p, sentiment |-> "negative"]>> : p \in Range(posts) }
    /\ \E earlier \in BOOLEAN :
          IF earlier /\ posts # <<>>
          THEN /\ runs = << [NewRun("full", "completed") EXCEPT
                               !.completed_at = "now", !.themes_created = 1] >>
               /\ themes = << NewTheme("A", 1, 1) >>
          ELSE /\ runs = <<>>
               /\ themes = <<>>
    /\ mappings = <<>>
    /\ workers = <<>>
    /\ requests = [c \in Callers |-> Idle]
    /\ call = [op |-> "input"]
    /\ llm = "terse"

Next ==
    \/ \E c \in Callers, run_type \in RunTypes : InsertPending(c, run_type)
    \/ \E c \in Callers : CheckOtherRun(c)
    \/ \E c \in Callers : RejectRun(c)
    \/ \E c \in Callers : PromoteRun(c)
    \/ \E c \in Callers : ReadStuckRuns(c)
    \/ \E c \in Callers : FailStuckRuns(c)
    \/ RunClusteringJob
    \/ \E r \in RunIds : StartFull(r)
    \/ \E r \in RunIds : DiscoverBatch(r)
    \/ \E r \in RunIds : ConsolidateRound(r)
    \/ \E r \in RunIds : PersistThemes(r)
    \/ \E r \in RunIds : CreateUncategorized(r)
    \/ \E r \in RunIds : FinishFull(r)
    \/ \E r \in RunIds : StartIncremental(r)
    \/ \E r \in RunIds : AssignBatch(r)
    \/ \E r \in RunIds : FinishIncremental(r)
    \/ RecalculateSeverity

Spec == Init /\ [][Next]_vars

-----------------------------------------------------------------------------
(* Two callers of start_run, no worker taking a step.                      *)

InitStartRun ==
    /\ \E n \in 0..MaxPosts : posts = PostList(n)
    /\ analyses \in { <<>> } \cup
          { <<[post_id |-> p, sentiment |-> "negative"]>> : p \in Range(posts) }
    /\ runs = <<>>
    /\ themes = <<>>
    /\ mappings = <<>>
    /\ workers = <<>>
    /\ requests = [c \in Callers |-> Idle]
    /\ call = [op |-> "input"]
    /\ llm = "terse"

NextStartRun ==
    \/ \E c \in Callers, run_type \in RunTypes : InsertPending(c, run_type)
    \/ \E c \in Callers : CheckOtherRun(c)
    \/ \E c \in Callers : RejectRun(c)
    \/ \E c \in Callers : PromoteRun(c)

SpecStartRun == InitStartRun /\ [][NextStartRun]_vars

-----------------------------------------------------------------------------
(* One full run alone, for every behaviour of the LLM.                     *)

ExtraPosts == 1

FullPostCounts == {0, 1, 2, BATCH_SIZE, BATCH_SIZE + ExtraPosts}

\* the state an earlier completed full run left: one theme over all posts
InitFull ==
    /\ \E n \in FullPostCounts : posts = PostList(n)
    /\ analyses \in { <<>> } \cup
          (IF posts = <<>> THEN {}
           ELSE { <<[post_id |-> posts[1], sentiment |-> "negative"]>> })
    /\ \E earlier \in BOOLEAN :
          IF earlier
          THEN /\ runs = << [NewRun("full", "completed") EXCEPT
                               !.completed_at = "now", !.themes_created = 1,
                               !.posts_processed = Len(posts)],
                            NewRun("full", "running") >>
               /\ themes = << NewTheme("A", 1, 1) >>
               /\ mappings = [k \in 1..Len(posts) |-> NewMapping(posts[k], 1, "1.0")]
               /\ workers = (2 :> Dispatched("full", "loop"))
          ELSE /\ runs = << NewRun("full", "running") >>
               /\ themes = <<>>
               /\ mappings = <<>>
               /\ workers = (1 :> Dispatched("full", "loop"))
    /\ requests = <<>>
    /\ call = [op |-> "input"]
    /\ llm = "adversarial"

NextFull ==
    \/ \E r \in RunIds : StartFull(r)
    \/ \E r \in RunIds : DiscoverBatch(r)
    \/ \E r \in RunIds : ConsolidateRound(r)
    \/ \E r \in RunIds : PersistThemes(r)
    \/ \E r \in RunIds : CreateUncategorized(r)
    \/ \E r \in RunIds : FinishFull(r)

SpecFull == InitFull /\ [][NextFull]_vars

-----------------------------------------------------------------------------
(* One run alone, full or incremental, for every behaviour of the LLM.     *)

NewPostCounts == {0, 1, 2, BATCH_SIZE + ExtraPosts}

\* the state an earlier completed full run left, its theme still active or
\* deactivated since, and the posts that arrived after it, which are the
\* newest; the newest post, or the oldest and the newest, have been judged
\* since (the severity the full run stored is then out of date); the
\* incremental run has been dispatched
InitIncremental ==
    /\ \E n \in NewPostCounts : posts = PostList(n + 1)
    /\ analyses \in { <<>>, <<[post_id |-> posts[1], sentiment |-> "negative"]>>,
                      <<[post_id |-> posts[Len(posts)], sentiment |-> "negative"],
                        [post_id |-> posts[1], sentiment |-> "negative"]>> }
    /\ runs = << [NewRun("full", "completed") EXCEPT
                     !.completed_at = "now", !.themes_created = 1,
                     !.posts_processed = 1],
                  NewRun("incremental", "running") >>
    /\ \E active \in BOOLEAN :
          themes = << [NewTheme("A", 1, 1) EXCEPT !.is_active = active] >>
    /\ mappings = << NewMapping(posts[Len(posts)], 1, "1.0") >>
    /\ workers = (2 :> Dispatched("incremental", "loop"))
    /\ requests = <<>>
    /\ call = [op |-> "input"]
    /\ llm = "adversarial"

InitRun == InitFull \/ InitIncremental

NextRun ==
    \/ \E r \in RunIds : StartFull(r)
    \/ \E r \in RunIds : DiscoverBatch(r)
    \/ \E r \in RunIds : ConsolidateRound(r)
    \/ \E r \in RunIds : PersistThemes(r)
    \/ \E r \in RunIds : CreateUncategorized(r)
    \/ \E r \in RunIds : FinishFull(r)
    \/ \E r \in RunIds : StartIncremental(r)
    \/ \E r \in RunIds : AssignBatch(r)
    \/ \E r \in RunIds : FinishIncremental(r)

SpecRun == InitRun /\ [][NextRun]_vars

-----------------------------------------------------------------------------
(* One run alone over a small store, its worker scheduled fairly.          *)

MaxLivePosts == 3

InitLive == InitRun /\ Len(posts) <= MaxLivePosts

\* the coroutine of the one dispatched worker is resumed whenever its LLM
\* call has returned: the event loop has nothing else to run
SpecLive == InitLive /\ [][NextRun]_vars /\ WF_vars(NextRun)

-----------------------------------------------------------------------------
(* A full run whose server process may die, then start_run and cancel.     *)

MaxCrashCallers == 3

CrashCallers == 1..MaxCrashCallers

\* the server process dies while a worker is inside run_clustering: the
\* coroutines and the request handlers in flight are gone, what they have
\* committed stays; no except- or finally-branch runs
Crash ==
    /\ \E r \in DOMAIN workers : workers[r].pc # "done"
    /\ workers' = [r \in DOMAIN workers |-> NoLocals]
    /\ requests' = [c \in DOMAIN requests |->
                       IF requests[c].pc \in {"idle", "returned"} THEN requests[c]
                       ELSE [requests[c] EXCEPT !.pc = "returned", !.response = "lost"]]
    /\ UNCHANGED <<posts, analyses, runs, themes, mappings, call, llm>>

\* start_run has promoted a full run over one post and dispatched its worker
InitCrash ==
    /\ posts = PostList(1)
    /\ analyses = <<>>
    /\ runs = << NewRun("full", "running") >>
    /\ themes = <<>>
    /\ mappings = <<>>
    /\ workers = (1 :> Dispatched("full", "loop"))
    /\ requests = [c \in CrashCallers |-> Idle]
    /\ call = [op |-> "input"]
    /\ llm = "terse"

NextCrash ==
    \/ Crash
    \/ \E c \in CrashCallers : InsertPending(c, "full")
    \/ \E c \in CrashCallers : CheckOtherRun(c)
    \/ \E c \in CrashCallers : RejectRun(c)
    \/ \E c \in CrashCallers : PromoteRun(c)
    \/ \E c \in CrashCallers : ReadStuckRuns(c)
    \/ \E c \in CrashCallers : FailStuckRuns(c)
    \/ \E r \in RunIds : StartFull(r)
    \/ \E r \in RunIds : DiscoverBatch(r)
    \/ \E r \in RunIds : ConsolidateRound(r)
    \/ \E r \in RunIds : PersistThemes(r)
    \/ \E r \in RunIds : CreateUncategorized(r)
    \/ \E r \in RunIds : FinishFull(r)

SpecCrash == InitCrash /\ [][NextCrash]_vars

-----------------------------------------------------------------------------
(* One run alone while the sync endpoint replaces the posts of the store.  *)

MaxStorePosts == 3

\* POST /api/sync with mode "override": every Post row is deleted and the
\* posts of the request are inserted, in one commit; analyses and mappings
\* of the deleted posts are left as they are
SyncOverride(request_posts) ==
    /\ request_posts # posts
    /\ posts' = request_posts
    /\ UNCHANGED <<analyses, runs, themes, mappings, workers, requests, call, llm>>

\* the posts a sync request carries: the newest posts of the source
RequestPostLists == { PostList(n) : n \in 0..(MaxStorePosts - 1) }

InitDeletion == InitRun /\ Len(posts) <= MaxStorePosts

NextDeletion ==
    \/ \E r \in RunIds : StartFull(r)
    \/ \E r \in RunIds : DiscoverBatch(r)
    \/ \E r \in RunIds : ConsolidateRound(r)
    \/ \E r \in RunIds : PersistThemes(r)
    \/ \E r \in RunIds : CreateUncategorized(r)
    \/ \E r \in RunIds : FinishFull(r)
    \/ \E r \in RunIds : StartIncremental(r)
    \/ \E r \in RunIds : AssignBatch(r)
    \/ \E r \in RunIds : FinishIncremental(r)
    \/ \E request_posts \in RequestPostLists : SyncOverride(request_posts)

SpecDeletion == InitDeletion /\ [][NextDeletion]_vars

-----------------------------------------------------------------------------
(* Properties of the Index Reference Resolver.                             *)

\* some decimal numeral inside s denotes an index of a batch of n posts
ContainsIndex(s, n) ==
    \E i, j \in 1..Len(s) :
        /\ i <= j
        /\ IsDigit(SubSeq(s, i, j))
        /\ IntOf(SubSeq(s, i, j)) \in 0..(n - 1)

\* s is the id of a post of the batch, exactly or up to letter case
MatchesLiteralId(s, batch) ==
    \E i \in 1..Len(batch) : Lower(batch[i]) = Lower(Strip(s))

-----------------------------------------------------------------------------
(* Properties of the Severity Calculator.                                  *)

\* the documents mapped to theme t that have a sentiment judgment
JudgedDocs(t) ==
    { p \in ThemePostIds(t) : \E i \in 1..Len(analyses) : analyses[i].post_id = p }

\* the most recent judgment of document p: the one with the highest record id
LatestSentiment(p) ==
    analyses[CHOOSE i \in 1..Len(analyses) :
        /\ analyses[i].post_id = p
        /\ \A j \in 1..Len(analyses) : analyses[j].post_id = p => j <= i].sentiment

RECURSIVE RefWeightSum(_)
RefWeightSum(docs) ==
    IF docs = {} THEN 0
    ELSE LET p == CHOOSE x \in docs : TRUE
             w == IF LatestSentiment(p) = "negative" THEN 1
                  ELSE IF LatestSentiment(p) = "positive" THEN 0 - 1 ELSE 0
         IN  w + RefWeightSum(docs \ {p})

\* score = sum of the weights / document_count, mapped to 1..5
RefSeverity(t) ==
    LET document_count == Cardinality(ThemePostIds(t))
        sum == RefWeightSum(JudgedDocs(t))
    IN  IF document_count = 0 \/ JudgedDocs(t) = {} THEN 3
        ELSE IF 2 * sum >= document_count THEN 5
        ELSE IF 4 * sum >= document_count THEN 4
        ELSE IF sum >= 0 THEN 3
        ELSE IF 4 * sum >= 0 - document_count THEN 2
        ELSE 1

\* C8: the severity of every theme equals the reference function, whose
\* score divides the summed weights of the latest judgments by the number of
\* documents mapped to the theme, and lies in 1..5.
C8_SeverityIsReference ==
    call.op = "recalculate_severity" =>
        \A t \in ActiveThemeIds :
            /\ themes[t].severity = RefSeverity(t)
            /\ themes[t].severity \in 1..5

\* C9: all latest sentiments negative gives 5, all positive gives 1, no
\* document or no judgment at all gives 3.
C9_SeverityExtremes ==
    call.op = "recalculate_severity" =>
        \A t \in ActiveThemeIds :
            LET judged == JudgedDocs(t)
                latest == { LatestSentiment(p) : p \in judged }
            IN  /\ latest = {"negative"} => themes[t].severity = 5
                /\ latest = {"positive"} => themes[t].severity = 1
                /\ (ThemePostIds(t) = {} \/ judged = {}) => themes[t].severity = 3

C9_Witness ==
    /\ call.op = "recalculate_severity"
    /\ \E t \in ActiveThemeIds :
        /\ Cardinality(ThemePostIds(t)) >= 2
        /\ JudgedDocs(t) = ThemePostIds(t)
        /\ \A p \in JudgedDocs(t) : LatestSentiment(p) = "negative"
        /\ \E i \in 1..Len(analyses) :
              analyses[i].post_id \in ThemePostIds(t) /\ analyses[i].sentiment = "positive"
        /\ themes[t].severity = 5

-----------------------------------------------------------------------------
(* Properties of the Consolidator.                                         *)

\* C6: for any theme list and any LLM merge response, a failed one
\* included, the union of document ids over the themes one consolidation
\* call returns equals the union over the themes passed in.
C6_ConsolidationKeepsUnion ==
    call.op = "consolidate" => AllPostIds(call.output) = AllPostIds(call.themes)


-----------------------------------------------------------------------------
(* Properties of a full run.                                               *)

\* the runs of type full whose worker has returned with status "completed"
CompletedFullRuns ==
    { r \in DOMAIN workers :
        /\ workers[r].pc = "done"
        /\ r \in DOMAIN runs
        /\ runs[r].run_type = "full"
        /\ runs[r].status = "completed" }

MappingsOf(post_id) == { k \in 1..Len(mappings) : mappings[k].post_id = post_id }

\* C1: after a full run has completed, every document present at run start
\* has exactly one mapping, and that mapping points to an active theme.
C1_ExactlyOneMapping ==
    CompletedFullRuns # {} =>
        \A p \in Range(posts) :
            /\ Cardinality(MappingsOf(p)) = 1
            /\ \A k \in MappingsOf(p) :
                  /\ mappings[k].theme_id \in 1..Len(themes)
                  /\ themes[mappings[k].theme_id].is_active

\* C2: when a full run is completed, every document present at run start
\* has at least one mapping, whatever the LLM returned.
C2_AtLeastOneMapping ==
    CompletedFullRuns # {} =>
        \A p \in Range(posts) : MappingsOf(p) # {}

\* a completed full run over two batches in which no theme was kept: every
\* document is mapped by the fallback alone
C2_Witness ==
    /\ CompletedFullRuns # {}
    /\ Len(posts) > BATCH_SIZE
    /\ Len(mappings) = Len(posts)
    /\ \A k \in 1..Len(mappings) : mappings[k].confidence = "0.5"

\* C7: when a full run completes, every document that appears in no theme
\* of its batch's discovery response is mapped to the theme "Uncategorized
\* posts" with confidence 0.5; the run creates at most one such theme, and
\* creates it only when those documents together with the documents of
\* themes without product area are at least one.
C7_UncategorizedFallback ==
    [][\A r \in DOMAIN workers :
          (/\ workers[r].pc = "finish"
           /\ r \in DOMAIN runs
           /\ runs[r].status # "completed"
           /\ runs'[r].status = "completed") =>
             LET w == workers[r]
                 omitted == w.all_post_ids \ AllPostIds(w.all_discovered_themes)
                 null_area == w.uncategorized_post_ids \cap w.all_post_ids
                 synthetic == { t \in 1..Len(themes') :
                                  /\ themes'[t].name = UncategorizedName
                                  /\ themes'[t].clustering_run_id = r }
             IN  /\ Cardinality(synthetic) <= 1
                 /\ \A p \in omitted :
                       \E k \in 1..Len(mappings') :
                          /\ mappings'[k].post_id = p
                          /\ mappings'[k].theme_id \in synthetic
                          /\ mappings'[k].confidence = "0.5"
                 /\ synthetic # {} => omitted \cup null_area # {}]_vars

\* C14: when an incremental run that found an active theme completes, every
\* document it processed, that is every document without mapping at its
\* start, has exactly one mapping, and that mapping points to an active theme.
C14_IncrementalExactlyOne ==
    [][\A r \in DOMAIN workers :
          (/\ workers[r].pc = "finish_incremental"
           /\ r \in DOMAIN runs
           /\ runs[r].status # "completed"
           /\ runs'[r].status = "completed") =>
             \A p \in Range(workers[r].post_list) :
                LET of_p == { k \in 1..Len(mappings') : mappings'[k].post_id = p }
                IN  /\ Cardinality(of_p) = 1
                    /\ \A k \in of_p :
                          /\ mappings'[k].theme_id \in 1..Len(themes')
                          /\ themes'[mappings'[k].theme_id].is_active]_vars

\* C15: a batch, or a consolidation round, whose gateway call returns null
\* adds no theme and no mapping and leaves the run's status as it is; the
\* checkpoint is written and the loop goes on with the batch that follows,
\* or with the step after the loop when it was the last.
C15_NullIsSoftFailure ==
    [][\A r \in DOMAIN workers :
          (/\ workers[r].pc \in {"discover", "consolidate", "assign"}
           /\ workers'[r] # workers[r]
           /\ workers'[r].result = "null") =>
             LET w == workers[r]
                 after == workers'[r]
                 more == w.i + BATCH_SIZE < Len(w.post_list)
             IN  /\ r \in DOMAIN runs'
                 /\ runs'[r].status = runs[r].status
                 /\ themes' = themes
                 /\ mappings' = mappings
                 /\ w.pc = "discover" =>
                       /\ after.all_discovered_themes = w.all_discovered_themes
                       /\ runs'[r].posts_processed = ProcessedAfter(w.post_list, w.i)
                       /\ IF more
                          THEN after.pc = "discover" /\ after.i = w.i + BATCH_SIZE
                          ELSE after.pc \in {"consolidate", "persist"}
                 /\ w.pc = "assign" =>
                       /\ after.themes_created = w.themes_created
                       /\ after.themes_updated = w.themes_updated
                       /\ runs'[r].posts_processed = ProcessedAfter(w.post_list, w.i)
                       /\ IF more
                          THEN after.pc = "assign" /\ after.i = w.i + BATCH_SIZE
                          ELSE after.pc = "finish_incremental"
                 /\ w.pc = "consolidate" =>
                       /\ after.pc \in {"consolidate", "persist"}
                       /\ Range(after.final_themes \o after.consolidated) \subseteq
                             Range(w.final_themes \o w.consolidated)
                                \cup Range(w.all_discovered_themes)]_vars

\* the first of two batches has come back null and the second is due
C15_Witness ==
    \E r \in DOMAIN workers :
        /\ workers[r].result = "null"
        /\ workers[r].pc \in {"discover", "assign"}
        /\ workers[r].i = BATCH_SIZE
        /\ runs[r].status = "running"
        /\ runs[r].posts_processed = BATCH_SIZE

\* C16: every PostThemeMapping row a run writes is for a document that is
\* in the store when the row is written, in the full path, for incremental
\* assignments and for the mappings of incremental new themes.
C16_MappingOnlyForStoredPost ==
    [][\A k \in (Len(mappings) + 1)..Len(mappings') :
          mappings'[k].post_id \in Range(posts')]_vars

\* C17: every PainTheme row has a product_area_id that is null or the id
\* of an active product area, whatever product_area_id the LLM returned.
C17_AreaIsValidOrNull ==
    \A t \in 1..Len(themes) :
        \/ themes[t].product_area_id = None
        \/ themes[t].product_area_id \in ActiveProductAreaIds

\* the positions from which run_clustering returns only through an
\* exception: inside the discovery loop, a consolidation round, the
\* persistence loop and the assignment loop
InsidePipeline == {"discover", "consolidate", "persist", "assign"}

\* C12: when a step of run execution raises, the run row ends with status
\* failed, an error_message and a completed_at, and the checkpoint, the
\* themes and the mappings committed before are still there.
C12_ExceptionMarksFailed ==
    [][\A r \in DOMAIN workers :
          (workers[r].pc \in InsidePipeline /\ workers'[r].pc = "done") =>
             /\ r \in DOMAIN runs'
             /\ runs'[r].status = "failed"
             /\ runs'[r].error_message # ""
             /\ runs'[r].completed_at # "null"
             /\ runs'[r].posts_processed = runs[r].posts_processed
             /\ Len(themes') >= Len(themes)
             /\ Len(mappings') >= Len(mappings)
             /\ SubSeq(themes', 1, Len(themes)) = themes
             /\ SubSeq(mappings', 1, Len(mappings)) = mappings]_vars

-----------------------------------------------------------------------------
(* Properties of the Run Coordinator.                                      *)

RunsWithStatus(statuses) == { r \in DOMAIN runs : runs[r].status \in statuses }

CallersAnswered(response) == { c \in DOMAIN requests : requests[c].response = response }

\* C3: two concurrent start_run calls, whatever the interleaving of their
\* steps, end with exactly one row in status running and exactly one
\* conflict response.
C3_SingleFlight ==
    (\A c \in DOMAIN requests : requests[c].pc = "returned") =>
        /\ Cardinality(RunsWithStatus({"running"})) = 1
        /\ Cardinality(CallersAnswered("conflict")) = 1

\* C4: in every reachable state at most one ClusteringRun row has status
\* pending or running, whichever entry point created the runs.
C4_AtMostOneActiveRun ==
    Cardinality(RunsWithStatus({"pending", "running"})) <= 1

\* C5: once a ClusteringRun row has status completed or failed, no later
\* step of any operation changes its status.
C5_TerminalIsFinal ==
    [][\A r \in DOMAIN runs :
          runs[r].status \in {"completed", "failed"} =>
             /\ r \in DOMAIN runs'
             /\ runs'[r].status = runs[r].status]_vars

\* C13: the step in which start_run answers with a conflict deletes the row
\* that call inserted, adds no row, leaves every other row as it is and
\* dispatches no worker; the call has promoted no row to running.
C13_ConflictStartsNothing ==
    [][\A c \in DOMAIN requests :
          (requests[c].response # "conflict" /\ requests'[c].response = "conflict") =>
             /\ requests[c].run_id \in DOMAIN runs
             /\ runs[requests[c].run_id].status = "pending"
             /\ requests[c].run_id \notin DOMAIN workers
             /\ DOMAIN runs' = DOMAIN runs \ {requests[c].run_id}
             /\ \A r \in DOMAIN runs' : runs'[r] = runs[r]
             /\ workers' = workers]_vars

\* a conflict answered while the run of the other caller is running
C13_Witness ==
    \E c \in DOMAIN requests :
        /\ requests[c].response = "conflict"
        /\ requests[c].run_id \notin DOMAIN runs
        /\ \E r \in DOMAIN runs : runs[r].status = "running" /\ r \in DOMAIN workers

\* the themes run r created
ThemesOfRun(theme_rows, r) ==
    { t \in 1..Len(theme_rows) : theme_rows[t].clustering_run_id = r }

\* C18: in the step in which a run on the full path creates its first
\* theme, every theme that was there before is inactive; and in the step in
\* which a run on the full path becomes completed, no theme created by an
\* earlier run is active.
C18_FullRunReplacesThemes ==
    [][\A r \in DOMAIN workers :
          /\ (/\ workers[r].pc \in {"persist", "uncategorized"}
              /\ workers'[r] # workers[r]
              /\ ThemesOfRun(themes, r) = {}
              /\ ThemesOfRun(themes', r) # {}) =>
                 \A t \in 1..Len(themes) : ~themes[t].is_active
          /\ (/\ \/ workers[r].pc = "start" /\ workers[r].run_type = "full"
                 \/ workers[r].pc \in {"full", "finish"}
              /\ r \in DOMAIN runs
              /\ runs[r].status # "completed"
              /\ r \in DOMAIN runs'
              /\ runs'[r].status = "completed") =>
                 \A t \in 1..Len(themes') :
                    themes'[t].clustering_run_id < r => ~themes'[t].is_active]_vars

\* C19: at most one invocation of run_clustering is inside the pipeline,
\* between its first statement and its last write, in every reachable state.
C19_OneWorkerAtATime ==
    Cardinality({ r \in DOMAIN workers : workers[r].pc \notin {"start", "done"} }) <= 1

\* C20: the step in which cancel commits sets every row that is running to
\* failed with completed_at set, and changes no other row, no theme, no
\* mapping and no worker; a cancel that finds no running row changes nothing.
C20_CancelOnlyRewritesStatus ==
    [][\A c \in DOMAIN requests :
          (/\ requests[c].pc \in {"idle", "cancel"}
           /\ requests'[c].pc = "returned"
           /\ requests'[c].response \in {"cancelled", "cancelled 0"}) =>
             /\ DOMAIN runs' = DOMAIN runs
             /\ \A r \in DOMAIN runs :
                   IF runs[r].status = "running" /\ requests[c].pc = "cancel"
                   THEN /\ runs'[r].status = "failed"
                        /\ runs'[r].completed_at # "null"
                   ELSE runs'[r] = runs[r]
             /\ themes' = themes
             /\ mappings' = mappings
             /\ workers' = workers]_vars

-----------------------------------------------------------------------------
(* Properties of an incremental run.                                       *)

\* C21: every mapping an incremental run writes from an LLM assignment
\* references a theme of the list presented to that batch; the other
\* mappings of the step are those of the themes the step creates
C21_AssignmentToPresentedTheme ==
    [][\A r \in DOMAIN workers :
          workers[r].pc = "assign" =>
             \A k \in (Len(mappings) + 1)..Len(mappings') :
                \/ mappings'[k].theme_id \in Range(workers[r].existing_themes)
                \/ mappings'[k].theme_id \in (Len(themes) + 1)..Len(themes')]_vars

\* themes of the store that run r created
CreatedBy(r) == { t \in 1..Len(themes) : themes[t].clustering_run_id = r }

\* themes of other runs that are active; an incremental run alone leaves
\* them as they were at its start
ActiveOfOthers(r) ==
    { t \in 1..Len(themes) : themes[t].clustering_run_id # r /\ themes[t].is_active }

\* C22: the theme list presented to batch k of an incremental run is the
\* themes active at run start followed by exactly the themes batches 0..k-1
\* of this run created; batches are taken one after another in partition
\* order, so a batch never sees a theme it or a later batch creates
C22_ThemesThreadedLeftToRight ==
    /\ [](\A r \in DOMAIN workers :
            workers[r].pc = "assign" =>
               LET w == workers[r]
                   at_start == Len(w.existing_themes) - Len(w.new_theme_ids)
               IN  /\ w.i % BATCH_SIZE = 0
                   /\ w.i < Len(w.post_list)
                   /\ runs[r].posts_processed = w.i
                   /\ Range(w.new_theme_ids) = CreatedBy(r)
                   /\ at_start >= 0
                   /\ { w.existing_themes[k] : k \in 1..at_start } = ActiveOfOthers(r)
                   /\ \A k \in 1..Len(w.new_theme_ids) :
                         w.existing_themes[at_start + k] = w.new_theme_ids[k]
                   /\ \A j, k \in 1..Len(w.existing_themes) :
                         j < k => w.existing_themes[j] < w.existing_themes[k])
    /\ [][\A r \in DOMAIN workers :
            (workers[r].pc = "assign" /\ r \in DOMAIN workers'
                /\ workers'[r].pc = "assign") =>
               /\ workers'[r].i = workers[r].i + BATCH_SIZE
               /\ workers'[r].post_list = workers[r].post_list
               /\ \A t \in (Len(themes) + 1)..Len(themes') :
                     /\ t \notin Range(workers[r].existing_themes)
                     /\ t \in Range(workers'[r].existing_themes)]_vars

\* the second batch is about to be presented a theme the first batch created
C22_Witness ==
    \E r \in DOMAIN workers :
        /\ workers[r].pc = "assign"
        /\ workers[r].i = BATCH_SIZE
        /\ workers[r].new_theme_ids # <<>>
        /\ Len(workers[r].existing_themes) > Len(workers[r].new_theme_ids)

-----------------------------------------------------------------------------
(* Properties of the per-area consolidation loop.                          *)

\* the themes among theme_rows that run r created for product area pa
ThemesOfArea(theme_rows, r, pa) ==
    { t \in 1..Len(theme_rows) :
        theme_rows[t].clustering_run_id = r /\ theme_rows[t].product_area_id = pa }

\* C23: a consolidation round is invoked only on a bucket of more than 5
\* themes and at most 3 times per bucket; the loop leaves the bucket as soon
\* as a round returns 5 or fewer themes; what the last round returns goes to
\* final_themes whole, over the cap or not, and the persistence step writes
\* one theme row for every entry of final_themes
C23_CapIsTargetRoundsBounded ==
    /\ [](\A r \in DOMAIN workers :
            workers[r].pc = "consolidate" =>
               /\ Len(workers[r].consolidated) > MAX_PER_AREA
               /\ workers[r].rounds < MAX_CONSOLIDATION_ROUNDS
               /\ workers[r].area_queue # <<>>)
    /\ [][\A r \in DOMAIN workers :
            LET w == workers[r]
                v == workers'[r]
            IN  /\ (w.pc = "consolidate" /\ v.pc \in {"consolidate", "persist"}) =>
                     \E result \in WorkerConsolidationResults(Len(w.consolidated)) :
                        LET out == ConsolidateThemes(w.consolidated, result) IN
                        /\ ~Raises(result)
                        /\ IF Len(out) > MAX_PER_AREA
                              /\ w.rounds + 1 < MAX_CONSOLIDATION_ROUNDS
                           THEN /\ v.pc = "consolidate"
                                /\ v.rounds = w.rounds + 1
                                /\ v.consolidated = out
                                /\ v.area_queue = w.area_queue
                                /\ v.final_themes = w.final_themes
                           ELSE /\ Len(v.area_queue) < Len(w.area_queue)
                                /\ Len(v.final_themes) >= Len(w.final_themes) + Len(out)
                                /\ SubSeq(v.final_themes, 1, Len(w.final_themes) + Len(out))
                                      = w.final_themes \o out
                /\ (w.pc = "persist" /\ v.pc = "uncategorized") =>
                      /\ Len(themes') = Len(themes) + Len(w.final_themes)
                      /\ \A k \in 1..Len(w.final_themes) :
                            /\ themes'[Len(themes) + k].name = w.final_themes[k].theme_name
                            /\ themes'[Len(themes) + k].clustering_run_id = r]_vars

\* a full run has persisted more than 5 themes of one product area: the
\* rounds of that bucket were used up above the cap
C23_Witness ==
    \E r \in DOMAIN workers :
        /\ workers[r].pc = "uncategorized"
        /\ \E pa \in ActiveProductAreaIds :
              Cardinality(ThemesOfArea(themes, r, pa)) > MAX_PER_AREA

\* the discovered themes of a worker that have no product area
NullAreaThemes(w) ==
    { w.all_discovered_themes[k] :
        k \in { j \in 1..Len(w.all_discovered_themes) :
                  w.all_discovered_themes[j].product_area_id = None } }

\* post p has a mapping to the "Uncategorized" theme of run r
InUncategorizedOf(p, r) ==
    \E k \in 1..Len(mappings) :
        /\ mappings[k].post_id = p
        /\ mappings[k].theme_id \in 1..Len(themes)
        /\ themes[mappings[k].theme_id].name = UncategorizedName
        /\ themes[mappings[k].theme_id].clustering_run_id = r

\* C24: in a full run a discovered theme with null product_area_id is in no
\* bucket given to consolidation and is not among the themes persisted, and
\* when the run has written its fallback theme every document of such a
\* theme that was in the store at run start is mapped to "Uncategorized"
C24_NullAreaGoesToUncategorized ==
    \A r \in DOMAIN workers :
        LET w == workers[r] IN
        /\ w.pc = "consolidate" => NullAreaThemes(w) \cap Range(w.consolidated) = {}
        /\ w.pc \in {"consolidate", "persist", "uncategorized", "finish"} =>
              /\ NullAreaThemes(w) \cap Range(w.final_themes) = {}
              /\ \A th \in NullAreaThemes(w) :
                    Range(th.post_ids) \subseteq w.uncategorized_post_ids
        /\ w.pc \in {"uncategorized", "finish"} =>
              /\ Len(w.created_theme_ids) >= Len(w.final_themes)
              /\ \A k \in 1..Len(w.final_themes) :
                    themes[w.created_theme_ids[k]].name = w.final_themes[k].theme_name
              /\ { t \in CreatedBy(r) : themes[t].name # UncategorizedName }
                    = { w.created_theme_ids[k] : k \in 1..Len(w.final_themes) }
        /\ w.pc = "finish" =>
              \A th \in NullAreaThemes(w) :
                 \A p \in Range(th.post_ids) \cap w.all_post_ids :
                    InUncategorizedOf(p, r)

\* the fallback theme is written, and a document of a theme without product
\* area is also a document of a persisted theme
C24_Witness ==
    \E r \in DOMAIN workers :
        /\ workers[r].pc = "finish"
        /\ \E th \in NullAreaThemes(workers[r]) :
              Range(th.post_ids) \cap workers[r].mapped_post_ids # {}

-----------------------------------------------------------------------------
(* Properties of the severities an incremental run stores.                 *)

\* theme t has a mapping to one of the posts the worker found unmapped
ReceivedMapping(t, w) ==
    \E k \in 1..Len(mappings') :
        mappings'[k].theme_id = t /\ mappings'[k].post_id \in Range(w.post_list)

\* C25: a step of an incremental run changes the severity only of a theme
\* that received a mapping in this run or that this run created; every
\* other theme keeps its severity
C25_SeverityOnlyOfTouchedThemes ==
    [][\A r \in DOMAIN workers :
          workers[r].run_type = "incremental" =>
             \A t \in 1..Len(themes) :
                themes'[t].severity # themes[t].severity =>
                   \/ themes[t].clustering_run_id = r
                   \/ ReceivedMapping(t, workers[r])]_vars

\* an incremental run has completed: the theme it created has its severity
\* recomputed, and an active theme of the earlier run, which received
\* nothing, keeps a severity that a recomputation would change
C25_Witness ==
    \E r \in DOMAIN runs :
        /\ runs[r].run_type = "incremental"
        /\ runs[r].status = "completed"
        /\ \E t \in CreatedBy(r) : themes[t].severity # 3
        /\ \E t \in ActiveOfOthers(r) :
              themes[t].severity # CalculateSeverityFromSentiments(t)

-----------------------------------------------------------------------------
(* Properties of an incremental run that finds no active theme.            *)

FullPath == {"full", "discover", "consolidate", "persist", "uncategorized", "finish"}

\* C26: an incremental run that finds no active theme degenerates to a full
\* run: its first step hands over without touching the store, and every
\* later step, for the LLM response it gets, is the step the next-state
\* relation of a full run takes from the same posts, themes, mappings and
\* run row, so it ends with the themes, mappings, posts_processed and
\* themes_created of a run of type full
C26_NoActiveThemeIsFullRun ==
    [][\A r \in DOMAIN workers :
          (workers[r].run_type = "incremental"
              /\ (ActiveThemeIds = {} \/ workers[r].pc \in FullPath)) =>
             IF workers[r].pc = "start"
             THEN /\ workers' = [workers EXCEPT ![r].pc = "full"]
                  /\ UNCHANGED <<posts, analyses, runs, themes, mappings>>
             ELSE NextFull]_vars

\* a run of type incremental has completed on the full path: every post of
\* the store is processed, the earlier mapping is gone, and the themes it
\* created are the active ones
C26_Witness ==
    \E r \in DOMAIN runs :
        /\ runs[r].run_type = "incremental"
        /\ runs[r].status = "completed"
        /\ runs[r].posts_processed = Len(posts)
        /\ runs[r].themes_created > 0
        /\ ActiveThemeIds = CreatedBy(r)
        /\ \A k \in 1..Len(mappings) : mappings[k].theme_id \in CreatedBy(r)

-----------------------------------------------------------------------------
(* Properties of one consolidation call, counted per document.             *)

\* the number of themes of theme_list that contain post p
ThemesContaining(theme_list, p) ==
    Cardinality({ k \in 1..Len(theme_list) : p \in Range(theme_list[k].post_ids) })

\* C27: one consolidation call leaves the multiset of document ids as it
\* is: every document is in as many themes of the output as of the input,
\* whatever merged_from lists the response holds
C27_ConsolidationKeepsMultiset ==
    call.op = "consolidate" =>
        \A p \in Range(posts) :
            ThemesContaining(call.output, p) = ThemesContaining(call.themes, p)

-----------------------------------------------------------------------------
(* Termination of a dispatched run.                                        *)

\* C28: a run that is running with its worker dispatched eventually has
\* status completed or failed, when the worker keeps being scheduled and
\* every LLM call returns
C28_RunReachesTerminalStatus ==
    \A r \in RunIds :
        (r \in DOMAIN workers /\ r \in DOMAIN runs
            /\ workers[r].pc = "start" /\ runs[r].status = "running")
          ~> (r \in DOMAIN runs /\ runs[r].status \in {"completed", "failed"})

-----------------------------------------------------------------------------
(* Properties of start_run and cancel after a worker has stopped.          *)

\* the worker of run r has stopped and the row of r still says running
StoppedRunning(r) ==
    /\ r \in DOMAIN runs /\ r \in DOMAIN workers
    /\ workers[r].pc = "done"
    /\ runs[r].status = "running"

\* another row than own_id is pending or running
OtherActiveRun(own_id) ==
    \E r \in DOMAIN runs \ {own_id} : runs[r].status \in {"running", "pending"}

\* C29: the row of a run whose worker stopped without writing a terminal
\* status stays running until cancel rewrites it; a start_run that makes its
\* check while such a row exists answers conflict and starts nothing; cancel
\* reads every such row and leaves it failed; a start_run that makes its
\* check when no other row is pending or running is promoted, dispatched and
\* answered ok
C29_StuckUntilCancelled ==
    /\ [][\A r \in RunIds :
            StoppedRunning(r) =>
               /\ r \in DOMAIN runs'
               /\ \/ runs'[r] = runs[r]
                  \/ /\ runs'[r].status = "failed"
                     /\ \E c \in DOMAIN requests :
                           /\ requests[c].pc = "cancel"
                           /\ r \in requests[c].stuck_runs
                           /\ requests'[c].response = "cancelled"
               /\ \A c \in DOMAIN requests :
                     /\ (requests[c].pc = "check" /\ requests'[c].pc = "decide"
                            /\ requests[c].run_id # r) =>
                           requests'[c].existing_running
                     /\ (requests[c].pc = "idle" /\ requests'[c].stuck_runs # {}) =>
                           r \in requests'[c].stuck_runs]_vars
    /\ [][\A c \in DOMAIN requests :
            LET own_id == requests[c].run_id IN
            /\ (requests[c].pc = "check" /\ requests'[c].pc = "decide") =>
                  (requests'[c].existing_running <=> OtherActiveRun(own_id))
            /\ (requests[c].pc = "decide" /\ requests'[c].response = "conflict") =>
                  /\ requests[c].existing_running
                  /\ own_id \notin DOMAIN runs'
                  /\ workers' = workers
            /\ (requests[c].pc = "decide" /\ requests'[c].response = "ok") =>
                  /\ ~requests[c].existing_running
                  /\ runs'[own_id].status = "running"
                  /\ own_id \in DOMAIN workers'
                  /\ workers'[own_id].pc = "start"
            /\ (requests[c].pc = "decide" /\ requests'[c].pc = "returned") =>
                  requests'[c].response \in {"conflict", "ok", "lost"}
            /\ (requests[c].pc = "cancel" /\ requests'[c].response = "cancelled") =>
                  \A r \in requests[c].stuck_runs : runs'[r].status = "failed"]_vars

\* the worker of run 1 died after its discovery call; one start_run was
\* answered conflict, cancel has rewritten the row, and a later start_run
\* is promoted with its worker dispatched
C29_Witness ==
    /\ 1 \in DOMAIN workers /\ 2 \in DOMAIN workers /\ 2 \in DOMAIN runs
    /\ workers[1].pc = "done" /\ workers[1].result = "none"
    /\ runs[1].status = "failed" /\ runs[1].error_message = "cancelled"
    /\ runs[1].posts_processed = 1
    /\ themes = <<>>
    /\ runs[2].status = "running" /\ workers[2].pc = "start"
    /\ \E c1, c2, c3 \in DOMAIN requests :
          /\ requests[c1].response = "conflict"
          /\ requests[c2].response = "cancelled"
          /\ requests[c3].response = "ok" /\ requests[c3].run_id = 2

-----------------------------------------------------------------------------
(* Properties of the start of a full run.                                  *)

\* C30: a full run over a non-empty store has committed the deactivation of
\* every theme and the deletion of every mapping when it makes its first
\* LLM call, so a run that ends failed before its persistence step leaves
\* no active theme and no mapping; a full run over an empty store completes
\* with every theme and mapping as it was
C30_OldClassificationGoneBeforeFirstCall ==
    /\ [](\A r \in DOMAIN workers :
            /\ workers[r].pc \in {"discover", "consolidate", "persist"} =>
                  ActiveThemeIds = {} /\ mappings = <<>>
            /\ (r \in DOMAIN runs /\ runs[r].status = "failed") =>
                  ActiveThemeIds = {} /\ mappings = <<>>)
    /\ [][\A r \in DOMAIN workers :
            (workers[r].pc = "start" /\ workers[r].run_type = "full") =>
               IF posts = <<>>
               THEN /\ runs'[r].status = "completed"
                    /\ workers'[r].pc = "done"
                    /\ UNCHANGED <<themes, mappings>>
               ELSE /\ workers'[r].pc = "discover"
                    /\ runs'[r].status = "running"
                    /\ Len(themes') = Len(themes)
                    /\ \A t \in 1..Len(themes) :
                          themes'[t] = [themes[t] EXCEPT !.is_active = FALSE]]_vars

\* a full run has failed in an LLM call: the theme of the earlier run is
\* inactive and its mappings are gone
C30_Witness ==
    \E r \in DOMAIN runs :
        /\ runs[r].run_type = "full"
        /\ runs[r].status = "failed"
        /\ posts # <<>>
        /\ themes # <<>>
        /\ ActiveThemeIds = {}
        /\ mappings = <<>>

=============================================================================
